---------------------------- MODULE Spec2Model ----------------------------
(***************************************************************************)
(* JusReport: the API service (src/app/api/main.py).  Texts are sequences  *)
(* of one-character strings, so that len(), slicing, lower(), strip() and  *)
(* substring search are computed the way Python computes them.             *)
(***************************************************************************)
EXTENDS Integers, Sequences, FiniteSets, TLC

(***************************************************************************)
(* Literals of the source                                                  *)
(***************************************************************************)
SEP_CENTRAL ==
    << "\n", "\n", "=", "=", "=", " ", "T", "R", "E", "C", "H", "O", " ", "C", "E", "N", "T",
       "R", "A", "L", " ", "D", "O", " ", "P", "R", "O", "C", "E", "S", "S", "O", " ", "=",
       "=", "=", "\n", "\n" >>

SEP_PRE_FINAL ==
    << "\n", "\n", "=", "=", "=", " ", "T", "R", "E", "C", "H", "O", " ", "P", "R", "É", "-",
       "F", "I", "N", "A", "L", " ", "D", "O", " ", "P", "R", "O", "C", "E", "S", "S", "O",
       " ", "=", "=", "=", "\n", "\n" >>

SEP_FINAL ==
    << "\n", "\n", "=", "=", "=", " ", "T", "R", "E", "C", "H", "O", " ", "F", "I", "N", "A",
       "L", " ", "D", "O", " ", "P", "R", "O", "C", "E", "S", "S", "O", " ", "=", "=", "=",
       "\n", "\n" >>

SEP_GLOBAL ==
    << "\n", "\n", "=", "=", "=", " ", "A", "M", "O", "S", "T", "R", "A", "G", "E", "M", " ",
       "G", "L", "O", "B", "A", "L", " ", "D", "O", " ", "P", "R", "O", "C", "E", "S", "S",
       "O", " ", "=", "=", "=", "\n", "\n" >>

HOT_HEAD_A ==
    << "\n", "\n", "=", "=", "=", " ", "P", "Á", "G", "I", "N", "A", " ", "R", "E", "L", "E",
       "V", "A", "N", "T", "E", " " >>

HOT_HEAD_B ==
    << " ", "(", "p", "a", "l", "a", "v", "r", "a", "s", "-", "c", "h", "a", "v", "e", " ",
       "l", "o", "c", "a", "l", "i", "z", "a", "d", "a", "s", ")", " ", "=", "=", "=", "\n",
       "\n" >>

TAB_HEAD_A ==
    << "\n", "\n", "=", "=", "=", " ", "C", "O", "N", "T", "E", "Ú", "D", "O", " ", "D", "A",
       " ", "P", "L", "A", "N", "I", "L", "H", "A", " ", "D", "E", "T", "E", "C", "T", "A",
       "D", "A", " ", "N", "A", " ", "P", "Á", "G", "I", "N", "A", " " >>

TAB_HEAD_B ==
    << " ", "=", "=", "=", "\n", "\n" >>

TAB_ROW_A ==
    << "-", "-", "-", " ", "T", "a", "b", "e", "l", "a", " " >>

TAB_ROW_B ==
    << " ", "(", "p", "á", "g", ".", " " >>

TAB_ROW_C ==
    << ")", " ", "-", "-", "-", "\n" >>

CELL_SEP ==
    << " ", "|", " " >>

NO_TEXT_MSG ==
    << "N", "ã", "o", " ", "f", "o", "i", " ", "p", "o", "s", "s", "í", "v", "e", "l", " ",
       "e", "x", "t", "r", "a", "i", "r", " ", "t", "e", "x", "t", "o", " ", "d", "o", " ",
       "P", "D", "F", ".", " ", "V", "e", "r", "i", "f", "i", "q", "u", "e", " ", "o", " ",
       "a", "r", "q", "u", "i", "v", "o", "." >>

NAO_INFORMADO ==
    << "\n", "\n", "N", "ã", "o", " ", "i", "n", "f", "o", "r", "m", "a", "d", "o", "." >>

BANNER_A ==
    << "S", "u", "m", "a", "r", "i", "z", "a", "ç", "ã", "o", " ", "d", "a", " " >>

KW_planilha ==
    << "p", "l", "a", "n", "i", "l", "h", "a" >>

KW_demonstrativo ==
    << "d", "e", "m", "o", "n", "s", "t", "r", "a", "t", "i", "v", "o" >>

KW_calculo ==
    << "c", "a", "l", "c", "u", "l", "o" >>

KW_sisbajud ==
    << "s", "i", "s", "b", "a", "j", "u", "d" >>

KW_bacenjud ==
    << "b", "a", "c", "e", "n", "j", "u", "d" >>

KW_bloqueio ==
    << "b", "l", "o", "q", "u", "e", "i", "o" >>

KW_penhora_online ==
    << "p", "e", "n", "h", "o", "r", "a", " ", "o", "n", "l", "i", "n", "e" >>

KW_penhora_on_line ==
    << "p", "e", "n", "h", "o", "r", "a", " ", "o", "n", "-", "l", "i", "n", "e" >>

TITLE_cabecalho ==
    << "C", "a", "b", "e", "ç", "a", "l", "h", "o" >>

TITLE_resumo_inicial ==
    << "R", "e", "s", "u", "m", "o", " ", "d", "a", " ", "P", "e", "t", "i", "ç", "ã", "o",
       " ", "I", "n", "i", "c", "i", "a", "l" >>

TITLE_penhora ==
    << "T", "e", "n", "t", "a", "t", "i", "v", "a", "s", " ", "d", "e", " ", "P", "e", "n",
       "h", "o", "r", "a", " ", "O", "n", "l", "i", "n", "e", " ", "e", " ", "G", "a", "r",
       "a", "n", "t", "i", "a", "s" >>

TITLE_valores_planilhas ==
    << "V", "a", "l", "o", "r", "e", "s", " ", "e", " ", "P", "l", "a", "n", "i", "l", "h",
       "a", "s", " ", "d", "e", " ", "D", "é", "b", "i", "t", "o" >>

TITLE_movimentacoes ==
    << "M", "o", "v", "i", "m", "e", "n", "t", "a", "ç", "õ", "e", "s", " ", "P", "r", "o",
       "c", "e", "s", "s", "u", "a", "i", "s", " ", "R", "e", "l", "e", "v", "a", "n", "t",
       "e", "s" >>

TITLE_analise_juridica ==
    << "A", "n", "á", "l", "i", "s", "e", " ", "J", "u", "r", "í", "d", "i", "c", "a" >>

KW_calculo_acento ==
    << "c", "á", "l", "c", "u", "l", "o" >>

(***************************************************************************)
(* Python string primitives                                                *)
(***************************************************************************)
Min(a, b) == IF a <= b THEN a ELSE b

Max(a, b) == IF a >= b THEN a ELSE b

\* s[a:b] for a, b >= 0
Slice(s, a, b) == SubSeq(s, Min(a, Len(s)) + 1, Min(b, Len(s)))

\* s[:n] for n >= 0
Prefix(s, n) == Slice(s, 0, n)

\* s[i:] for any integer i: a negative i counts from the end, and -0 is 0
SliceFrom(s, i) ==
    IF i < 0 THEN SubSeq(s, Max(Len(s) + i, 0) + 1, Len(s))
             ELSE SubSeq(s, Min(i, Len(s)) + 1, Len(s))

WHITESPACE == {" ", "\n", "\t", "\r"}

RECURSIVE LStrip(_)
LStrip(s) ==
    IF s # <<>> /\ Head(s) \in WHITESPACE THEN LStrip(Tail(s)) ELSE s

RECURSIVE RStrip(_)
RStrip(s) ==
    IF s # <<>> /\ s[Len(s)] \in WHITESPACE
    THEN RStrip(SubSeq(s, 1, Len(s) - 1)) ELSE s

\* str.strip()
Strip(s) == RStrip(LStrip(s))

UPPER ==
    << "A", "B", "C", "D", "E", "F", "G", "H", "I", "J", "K", "L", "M", "N", "O", "P",
       "Q", "R", "S", "T", "U", "V", "W", "X", "Y", "Z", "Á", "É", "Ú", "Ç", "Ã", "Õ" >>

LOWER ==
    << "a", "b", "c", "d", "e", "f", "g", "h", "i", "j", "k", "l", "m", "n", "o", "p",
       "q", "r", "s", "t", "u", "v", "w", "x", "y", "z", "á", "é", "ú", "ç", "ã", "õ" >>

LowerChar(c) ==
    IF \E i \in 1..Len(UPPER) : UPPER[i] = c
    THEN LOWER[CHOOSE i \in 1..Len(UPPER) : UPPER[i] = c]
    ELSE c

\* str.lower()
Lower(s) == [i \in 1..Len(s) |-> LowerChar(s[i])]

\* needle in hay
Contains(hay, needle) ==
    \E i \in 0..(Len(hay) - Len(needle)) :
        SubSeq(hay, i + 1, i + Len(needle)) = needle

RECURSIVE Concat(_)
\* "".join(parts)
Concat(parts) ==
    IF parts = <<>> THEN <<>> ELSE Head(parts) \o Concat(Tail(parts))

RECURSIVE Join(_, _)
\* sep.join(parts)
Join(sep, parts) ==
    IF parts = <<>> THEN <<>>
    ELSE IF Len(parts) = 1 THEN parts[1]
    ELSE parts[1] \o sep \o Join(sep, Tail(parts))

DIGITS == << "0", "1", "2", "3", "4", "5", "6", "7", "8", "9" >>

RECURSIVE Str(_)
\* str(n) / f"{n}" for n >= 0
Str(n) == IF n < 10 THEN << DIGITS[n + 1] >> ELSE Str(n \div 10) \o << DIGITS[(n % 10) + 1] >>

(***************************************************************************)
(* PDF documents as pdfplumber shows them.  A document is                  *)
(* [readable, pages]; a page is [text, tables], each the outcome of the    *)
(* call page.extract_text() / page.extract_tables():                       *)
(*   [kind |-> "ok", val |-> v], [kind |-> "none"] + val, or "raise".      *)
(***************************************************************************)
Ok(v) == [kind |-> "ok", val |-> v]

NoneResult == [kind |-> "none", val |-> <<>>]

Raises == [kind |-> "raise", val |-> <<>>]

\* t = page.extract_text() or ""
TextOr(res) == IF res.kind = "ok" THEN res.val ELSE <<>>

RECURSIVE ReadLoop(_, _)
\* the for loop over pdf.pages inside the try: the first page whose
\* extract_text() raises ends the loop, keeping the pages appended so far
ReadLoop(pages, acc) ==
    IF pages = <<>> THEN acc
    ELSE IF Head(pages).text.kind = "raise" THEN acc
    ELSE ReadLoop(Tail(pages), Append(acc, TextOr(Head(pages).text)))

\* text_by_page after the try/except around pdfplumber.open
text_by_page(pdf) == IF pdf.readable THEN ReadLoop(pdf.pages, <<>>) ELSE <<>>

PARA == << "\n", "\n" >>

\* the pages joined by one line feed, not by the blank line
full_text_single_newline(pages) == IF pages # <<>> THEN Join(<< "\n" >>, pages) ELSE <<>>

\* full_text = "\n\n".join(text_by_page) if text_by_page else ""
full_text(pages) == IF pages # <<>> THEN Join(PARA, pages) ELSE <<>>

HARD_CAP_CHARS == 80000

DEFAULT_MAX_PDF_CHARS == 30000

\* the budget of the environment taken as it is, without the clamp
effective_max_chars_unclamped(env_max) == env_max

\* max_chars = min(env_max, HARD_CAP_CHARS)
effective_max_chars(env_max) == Min(env_max, HARD_CAP_CHARS)

keywords ==
    << KW_planilha, KW_demonstrativo, KW_calculo_acento, KW_calculo, KW_sisbajud,
       KW_bacenjud, KW_bloqueio, KW_penhora_online, KW_penhora_on_line >>

\* the keyword test without .lower(): the letters of the page as they are
HasKeywordCaseSensitive(page_text) ==
    \E k \in 1..Len(keywords) : Contains(page_text, keywords[k])

\* any(k in tl for k in keywords), tl = (page_text or "").lower()
HasKeyword(page_text) ==
    LET tl == Lower(page_text)
    IN  \E k \in 1..Len(keywords) : Contains(tl, keywords[k])

\* the page loop putting each hit in front of the list, not at its end
RECURSIVE DetectLoopPrepending(_, _, _)
DetectLoopPrepending(pages, idx, acc) ==
    IF idx >= Len(pages) THEN acc
    ELSE DetectLoopPrepending(pages, idx + 1,
                    IF HasKeyword(pages[idx + 1]) THEN << idx + 1 >> \o acc ELSE acc)

\* for idx, page_text in enumerate(text_by_page): ... pages.append(idx + 1)
RECURSIVE DetectLoop(_, _, _)
DetectLoop(pages, idx, acc) ==
    IF idx >= Len(pages) THEN acc
    ELSE DetectLoop(pages, idx + 1,
                    IF HasKeyword(pages[idx + 1]) THEN Append(acc, idx + 1) ELSE acc)

\* _detect_planilha_pages(text_by_page): 1-based numbers of the keyword pages
_detect_planilha_pages(pages) == DetectLoop(pages, 0, <<>>)

(***************************************************************************)
(* _build_global_sample                                                    *)
(***************************************************************************)
\* part = max_chars // 4; if part == 0: part = max_chars
sample_part(max_chars) ==
    IF max_chars \div 4 = 0 THEN max_chars ELSE max_chars \div 4

inicio(text, max_chars) == Prefix(text, sample_part(max_chars))

meio(text, max_chars) ==
    LET part == sample_part(max_chars)
        total_len == Len(text)
        mid_center == total_len \div 2
        mid_start == Max(0, mid_center - (part \div 2))
        mid_end == Min(total_len, mid_start + part)
    IN  Slice(text, mid_start, mid_end)

pre_final(text, max_chars) ==
    LET part == sample_part(max_chars)
        total_len == Len(text)
        start0 == Max(0, total_len - (part * 2))
        end0 == start0 + part
        pre_final_end == IF end0 > total_len THEN total_len ELSE end0
        pre_final_start == IF end0 > total_len THEN Max(0, total_len - part) ELSE start0
    IN  Slice(text, pre_final_start, pre_final_end)

\* fim = full_text[-part:]
fim(text, max_chars) == SliceFrom(text, 0 - sample_part(max_chars))

\* _build_global_sample with the identity test written < instead of <=
build_global_sample_strict(text, max_chars) ==
    IF Len(text) < max_chars THEN text
    ELSE inicio(text, max_chars) \o SEP_CENTRAL \o meio(text, max_chars)
         \o SEP_PRE_FINAL \o pre_final(text, max_chars)
         \o SEP_FINAL \o fim(text, max_chars)

\* _build_global_sample with the labels of the last two zones exchanged
build_global_sample_labels_exchanged(text, max_chars) ==
    IF Len(text) <= max_chars THEN text
    ELSE inicio(text, max_chars) \o SEP_CENTRAL \o meio(text, max_chars)
         \o SEP_FINAL \o pre_final(text, max_chars)
         \o SEP_PRE_FINAL \o fim(text, max_chars)

_build_global_sample(text, max_chars) ==
    IF Len(text) <= max_chars THEN text
    ELSE inicio(text, max_chars) \o SEP_CENTRAL \o meio(text, max_chars)
         \o SEP_PRE_FINAL \o pre_final(text, max_chars)
         \o SEP_FINAL \o fim(text, max_chars)

(***************************************************************************)
(* _extract_text_from_pdf: hotspots + global sample                        *)
(***************************************************************************)
\* row = [cell if cell is not None else "" for cell in row]; " | ".join(row) + "\n"
TableRow(row) ==
    Join(CELL_SEP, [c \in 1..Len(row) |->
                      IF row[c].kind = "ok" THEN row[c].val ELSE <<>>]) \o << "\n" >>

TableText(table, t_idx, page_num) ==
    TAB_ROW_A \o Str(t_idx) \o TAB_ROW_B \o Str(page_num) \o TAB_ROW_C
    \o Concat([r \in 1..Len(table) |-> TableRow(table[r])]) \o << "\n" >>

\* tables = page.extract_tables() or [], [] when the call raises
TablesOf(page) == IF page.tables.kind = "ok" THEN page.tables.val ELSE <<>>

\* "".join(bloco) for the keyword page idx (0-based) with text raw_page_text
HotspotBlock(page, idx, raw_page_text) ==
    LET page_num == idx + 1
        tables == TablesOf(page)
    IN  HOT_HEAD_A \o Str(page_num) \o HOT_HEAD_B \o raw_page_text
        \o (IF tables # <<>>
            THEN TAB_HEAD_A \o Str(page_num) \o TAB_HEAD_B
                 \o Concat([t \in 1..Len(tables) |-> TableText(tables[t], t, page_num)])
            ELSE <<>>)

\* planilha_pages built by the hotspot loop over text_by_page
hotspot_pages(pages) == DetectLoop(pages, 0, <<>>)

\* hotspot_parts: one block per keyword page, in page order
hotspot_parts(pdf, pages) ==
    LET pp == hotspot_pages(pages)
    IN  [i \in 1..Len(pp) |-> HotspotBlock(pdf.pages[pp[i]], pp[i] - 1, pages[pp[i]])]

\* hotspot_text = "".join(hotspot_parts).strip()
hotspot_joined(pdf, pages) == Strip(Concat(hotspot_parts(pdf, pages)))

\* the share of the hotspots set to the whole budget
max_hotspot_whole_budget(max_chars) == max_chars

\* max_hotspot = int(max_chars * 0.6)
max_hotspot(max_chars) == (max_chars * 3) \div 5

\* the truncation keeping the last max_hotspot characters, not the first
hotspot_text_tail_kept(joined, max_chars) ==
    IF Len(joined) > max_hotspot(max_chars)
    THEN SubSeq(joined, Len(joined) - max_hotspot(max_chars) + 1, Len(joined))
    ELSE joined

\* hotspot_text after the truncation to max_hotspot
hotspot_text(joined, max_chars) ==
    IF Len(joined) > max_hotspot(max_chars)
    THEN Prefix(joined, max_hotspot(max_chars))
    ELSE joined

\* a budget for the sample that does not count the hotspots
remaining_chars_independent(hotspot, max_chars) == max_chars

remaining_chars(hotspot, max_chars) == max_chars - Len(hotspot)

Meta(pages) == [planilha_pages |-> pages]

\* _extract_text_from_pdf giving the sample of a document without keyword
\* page only what is left of the budget after the share of the hotspots
extract_text_from_pdf_leftover(pdf, env_max) ==
    LET max_chars == effective_max_chars(env_max)
        pages == text_by_page(pdf)
        full == full_text(pages)
        joined == hotspot_joined(pdf, pages)
        hotspot == hotspot_text(joined, max_chars)
        remaining == remaining_chars(hotspot, max_chars)
    IN  IF Len(full) = 0
          THEN [text |-> <<>>, meta |-> Meta(<<>>), log |-> <<>>]
        ELSE IF Len(full) <= max_chars
          THEN [text |-> full, meta |-> Meta(_detect_planilha_pages(pages)),
                       log |-> << max_chars >>]
        ELSE IF joined = <<>>
          THEN [text |-> _build_global_sample(full, max_chars - max_hotspot(max_chars)),
                       meta |-> Meta(<<>>),
                       log |-> << max_chars >>]
        ELSE IF remaining <= 0
          THEN [text |-> hotspot, meta |-> Meta(hotspot_pages(pages)),
                       log |-> << max_chars >>]
        ELSE [text |-> hotspot \o SEP_GLOBAL \o _build_global_sample(full, remaining),
              meta |-> Meta(hotspot_pages(pages)), log |-> << max_chars >>]

\* _extract_text_from_pdf(path) under MAX_PDF_CHARS = env_max. The value
\* returned is [text |-> final_text, meta |-> {"planilha_pages": [...]}];
\* log holds the max_chars of the "[INFO] ... usando
\* max_chars=" line when that line is printed
_extract_text_from_pdf(pdf, env_max) ==
    LET max_chars == effective_max_chars(env_max)
        pages == text_by_page(pdf)
        full == full_text(pages)
        joined == hotspot_joined(pdf, pages)
        hotspot == hotspot_text(joined, max_chars)
        remaining == remaining_chars(hotspot, max_chars)
    IN  IF Len(full) = 0
          THEN [text |-> <<>>, meta |-> Meta(<<>>), log |-> <<>>]
        ELSE IF Len(full) <= max_chars
          THEN [text |-> full, meta |-> Meta(_detect_planilha_pages(pages)),
                       log |-> << max_chars >>]
        ELSE IF joined = <<>>
          THEN [text |-> _build_global_sample(full, max_chars), meta |-> Meta(<<>>),
                       log |-> << max_chars >>]
        ELSE IF remaining <= 0
          THEN [text |-> hotspot, meta |-> Meta(hotspot_pages(pages)),
                       log |-> << max_chars >>]
        ELSE [text |-> hotspot \o SEP_GLOBAL \o _build_global_sample(full, remaining),
              meta |-> Meta(hotspot_pages(pages)), log |-> << max_chars >>]

(***************************************************************************)
(* Inputs                                                                  *)
(***************************************************************************)
MaxPages == 3

MaxTextLen == 6

MaxChars == 8

MaxSmallBudget == 3

MaxBudgetSteps == 4

LongPageLen == 120

MaxKeywordPages == 13

SeqsUpTo(S, n) == UNION { [1..k -> S] : k \in 0..n }

ABCDE == << "a", "b", "c", "d", "e" >>

\* a page of running text with no keyword in it
LongText == [i \in 1..LongPageLen |-> ABCDE[(i % 5) + 1]]

\* texts of documents that quote one of the labels of the sample, as the
\* text of an earlier report does
QuotingTexts ==
    { ABCDE \o label \o LongText \o LongText :
         label \in {SEP_CENTRAL, SEP_PRE_FINAL, SEP_FINAL} }

\* texts handed to _build_global_sample
SampleTexts == SeqsUpTo({"a", "b"}, MaxTextLen) \cup QuotingTexts

QuotingBudget == 200

\* budgets handed to _build_global_sample
SampleBudgets == (0..MaxChars) \cup {QuotingBudget}

OneTable == << << << Ok(<< "1" >>), NoneResult >>, << Ok(<< "2", "0" >>), Ok(<< "x" >>) >> >> >>

PagePool ==
    { [text |-> NoneResult, tables |-> Ok(<<>>)],
      [text |-> Raises, tables |-> Ok(<<>>)],
      [text |-> Ok(ABCDE), tables |-> Ok(<<>>)],
      [text |-> Ok(LongText), tables |-> NoneResult],
      [text |-> Ok(<< " ", "\n" >>), tables |-> Ok(<<>>)],
      [text |-> Ok(<< "S", "i", "s", "b", "a", "J", "U", "D" >>), tables |-> Raises],
      [text |-> Ok(<< "a", " " >> \o KW_planilha \o << "\n" >>), tables |-> Ok(OneTable)] }

\* a document of n pages that all carry a keyword
KeywordPdf(n) ==
    [readable |-> TRUE,
     pages |-> [i \in 1..n |-> [text |-> Ok(KW_bloqueio), tables |-> Ok(<<>>)]]]

Pdfs ==
    { [readable |-> TRUE, pages |-> p] : p \in SeqsUpTo(PagePool, MaxPages) }
    \cup { [readable |-> FALSE, pages |-> <<>>] }
    \cup { KeywordPdf(n) : n \in (MaxPages + 1)..MaxKeywordPages }

\* values of MAX_PDF_CHARS in the environment
EnvMaxValues ==
    (1..MaxSmallBudget) \cup { 50 * k : k \in 1..MaxBudgetSteps }
    \cup { DEFAULT_MAX_PDF_CHARS, HARD_CAP_CHARS, HARD_CAP_CHARS + 1 }

MaxJobs == 2

MaxFails == 2

\* the files clients upload: an image-only scan, a page of blanks, a short
\* document with a keyword page, and a long one with a keyword page
UploadedPdfs ==
    << [readable |-> TRUE, pages |-> << [text |-> NoneResult, tables |-> Ok(<<>>)] >>],
       [readable |-> TRUE, pages |-> << [text |-> Ok(<< " ", "\n" >>), tables |-> Ok(<<>>)] >>],
       [readable |-> TRUE,
        pages |-> << [text |-> Ok(ABCDE), tables |-> Ok(<<>>)],
                     [text |-> Ok(<< "S", "i", "s", "b", "a", "J", "U", "D" >>),
                      tables |-> Raises] >>],
       [readable |-> TRUE,
        pages |-> << [text |-> Ok(LongText), tables |-> NoneResult],
                     [text |-> Ok(KW_bloqueio), tables |-> Ok(<<>>)] >>] >>

CaseNumbers == { << "0", "1" >>, << "0", "2" >> }

ActionTypes == { << "E", "x", "e", "c" >> }

\* values of MAX_PDF_CHARS the service is started with
ServiceEnvMax == { 100, DEFAULT_MAX_PDF_CHARS }

(***************************************************************************)
(* The LLM (text_model.generate_content), an external service.  "free":    *)
(* each call may raise or return; "script": the next fails_left calls      *)
(* raise and every later call returns; "down": every call raises.          *)
(***************************************************************************)
LLMStubs ==
    { [mode |-> "free", fails_left |-> 0], [mode |-> "down", fails_left |-> 0] }
    \cup { [mode |-> "script", fails_left |-> n] : n \in 0..MaxFails }

LLMMayRaise(l) == l.mode \in {"free", "down"} \/ (l.mode = "script" /\ l.fails_left > 0)

LLMMayReturn(l) == l.mode = "free" \/ (l.mode = "script" /\ l.fails_left = 0)

LLMAfterRaise(l) ==
    IF l.mode = "script" THEN [l EXCEPT !.fails_left = l.fails_left - 1] ELSE l

(***************************************************************************)
(* State                                                                   *)
(***************************************************************************)
VARIABLES
    sample_in,      \* arguments of a call of _build_global_sample
    sample_out,     \* [returned, value] of that call
    extract_in,     \* arguments of a call of _extract_text_from_pdf
    extract_out,    \* [returned, text, meta, text_by_page] of that call
    env_max,        \* MAX_PDF_CHARS of the process
    gemini_ok,      \* GEMINI_API_KEY set and text_model loaded
    llm,            \* the state of the LLM service
    JOBS,           \* the in-memory job table, in insertion order
    pc,             \* "idle", or where the request being served stands
    req,            \* the /summarize request being served
    job_ix,         \* the position in JOBS of the job the request resolved to
    extracted,      \* the text _extract_text_from_pdf returned
    base_text,      \* the text handed to _run_execucao_agents
    meta,           \* the meta _extract_text_from_pdf returned
    sections,       \* the dict sections of _run_execucao_agents
    calls,          \* the calls of generate_content made for this request
    http,           \* the response of the last request served
    processos,      \* the rows of the table processos of banco_dados.db
    ids_used,       \* how many process ids salvar_processo has issued
    ui_pc,          \* "idle", or where the automatic processing stands
    row,            \* the row of the pending list being processed
    steps,          \* the steps of the automatic processing that succeeded
    relatorios      \* the paths of the non-empty files in RELATORIOS_DIR

sampleVars == << sample_in, sample_out >>

extractVars == << extract_in, extract_out >>

configVars == << env_max, gemini_ok >>

runVars == << req, job_ix, extracted, base_text, meta, sections, calls >>

uiVars == << processos, ids_used, ui_pc, row, steps, relatorios >>

vars ==
    << sample_in, sample_out, extract_in, extract_out, env_max, gemini_ok, llm, JOBS,
       pc, req, job_ix, extracted, base_text, meta, sections, calls, http,
       processos, ids_used, ui_pc, row, steps, relatorios >>

NoSampleCall ==
    /\ sample_in = [full_text |-> <<>>, max_chars |-> 0]
    /\ sample_out = [returned |-> FALSE, value |-> <<>>]

NoRequest ==
    /\ req = [case_number |-> <<>>, action_type |-> <<>>, llm_at_start |-> llm]
    /\ job_ix = 0
    /\ extracted = <<>>
    /\ base_text = <<>>
    /\ meta = Meta(<<>>)
    /\ sections = <<>>
    /\ calls = <<>>

NoResponse ==
    [endpoint |-> "", status |-> 0, detail |-> "", summary_markdown |-> <<>>,
     sections |-> <<>>, meta |-> Meta(<<>>)]

\* the service with no job, serving nothing
ServiceIdle ==
    /\ env_max = DEFAULT_MAX_PDF_CHARS
    /\ gemini_ok = TRUE
    /\ llm = [mode |-> "free", fails_left |-> 0]
    /\ JOBS = <<>>
    /\ pc = "idle"
    /\ NoRequest
    /\ http = NoResponse

\* the row of no process
NoRow ==
    [id |-> 0, numero_processo |-> <<>>, conferencia |-> <<>>, status |-> "",
     caminho_relatorio |-> <<>>]

\* an empty table, no report on disk, the administrator's page at rest
NoProcess ==
    /\ processos = {}
    /\ ids_used = 0
    /\ ui_pc = "idle"
    /\ row = NoRow
    /\ steps = <<>>
    /\ relatorios = {}

serviceVars == << env_max, gemini_ok, llm, JOBS, pc, req, job_ix, extracted, base_text,
                  meta, sections, calls, http >>

NoExtractCall ==
    /\ extract_in = [pdf |-> [readable |-> FALSE, pages |-> <<>>], env_max |-> 0]
    /\ extract_out = [returned |-> FALSE, text |-> <<>>, meta |-> Meta(<<>>),
                      text_by_page |-> <<>>, log |-> <<>>]

(***************************************************************************)
(* _build_global_sample called on any text and budget                      *)
(***************************************************************************)
InitSample ==
    /\ sample_in \in [full_text : SampleTexts, max_chars : SampleBudgets]
    /\ sample_out = [returned |-> FALSE, value |-> <<>>]
    /\ NoExtractCall
    /\ ServiceIdle
    /\ NoProcess

CallBuildGlobalSample ==
    /\ ~sample_out.returned
    /\ sample_out' = [returned |-> TRUE,
                      value |-> _build_global_sample(sample_in.full_text, sample_in.max_chars)]
    /\ UNCHANGED << sample_in, extractVars, serviceVars, uiVars >>

NextSample == CallBuildGlobalSample

SpecSample == InitSample /\ [][NextSample]_vars

(***************************************************************************)
(* _extract_text_from_pdf called on any document and MAX_PDF_CHARS         *)
(***************************************************************************)
InitExtract ==
    /\ extract_in \in [pdf : Pdfs, env_max : EnvMaxValues]
    /\ extract_out = [returned |-> FALSE, text |-> <<>>, meta |-> Meta(<<>>),
                      text_by_page |-> <<>>, log |-> <<>>]
    /\ NoSampleCall
    /\ ServiceIdle
    /\ NoProcess

CallExtractTextFromPdf ==
    /\ ~extract_out.returned
    /\ LET r == _extract_text_from_pdf(extract_in.pdf, extract_in.env_max)
       IN  extract_out' = [returned |-> TRUE, text |-> r.text, meta |-> r.meta,
                           text_by_page |-> text_by_page(extract_in.pdf), log |-> r.log]
    /\ UNCHANGED << extract_in, sampleVars, serviceVars, uiVars >>

NextExtract == CallExtractTextFromPdf

SpecExtract == InitExtract /\ [][NextExtract]_vars

(***************************************************************************)
(* The service: /ingest, /summarize with _run_execucao_agents              *)
(***************************************************************************)
\* tasks of _run_execucao_agents, in the order of the list
tasks ==
    << [key |-> "cabecalho", title |-> TITLE_cabecalho],
       [key |-> "resumo_inicial", title |-> TITLE_resumo_inicial],
       [key |-> "penhora", title |-> TITLE_penhora],
       [key |-> "valores_planilhas", title |-> TITLE_valores_planilhas],
       [key |-> "movimentacoes", title |-> TITLE_movimentacoes],
       [key |-> "analise_juridica", title |-> TITLE_analise_juridica] >>

\* the list order with two neighbours exchanged
order_exchanged ==
    << "cabecalho", "resumo_inicial", "valores_planilhas", "penhora", "movimentacoes",
       "analise_juridica" >>

\* the list order of _run_execucao_agents
order ==
    << "cabecalho", "resumo_inicial", "penhora", "valores_planilhas", "movimentacoes",
       "analise_juridica" >>

\* next(t["title"] for t in tasks if t["key"] == key)
TitleOf(key) == tasks[CHOOSE i \in 1..Len(tasks) : tasks[i].key = key].title

\* f"## {title}\n\nNão informado."
Placeholder(title) == << "#", "#", " " >> \o title \o NAO_INFORMADO

\* what the model answers to the prompt of a task: nothing, blanks, or a text
LLMReplies(task) ==
    { NoneResult, Ok(<< " ", "\n" >>),
      Ok(<< "\n", "#", "#", " " >> \o task.title \o << "\n", "-", " ", "o", "k", "\n", " " >>) }

\* the text of the reply kept as it came, not trimmed
ReplyTextUntrimmed(resp) == TextOr(resp)

\* text = (resp.text or "").strip()
ReplyText(resp) == Strip(TextOr(resp))

\* sections.get(key, "")
SectionsGet(secs, key) == IF key \in DOMAIN secs THEN secs[key] ELSE <<>>

\* md_parts[0] = f"Sumarização da {action_type} ({case_number})\n"
Banner(action_type, case_number) ==
    BANNER_A \o action_type \o << " ", "(" >> \o case_number \o << ")", "\n" >>

\* the entry of md_parts for key
SectionPart(secs, key) ==
    LET section_text == Strip(SectionsGet(secs, key))
    IN  IF section_text = <<>> THEN Placeholder(TitleOf(key)) ELSE section_text

\* final_md = "\n\n".join(md_parts)
final_md(secs, action_type, case_number) ==
    Join(PARA, << Banner(action_type, case_number) >>
               \o [i \in 1..Len(order) |-> SectionPart(secs, order[i])])

\* the search keeping the last job with that case_number, not the first
FindJobLatest(jobs, case_number) ==
    IF \E i \in 1..Len(jobs) : jobs[i].case_number = case_number
    THEN CHOOSE i \in 1..Len(jobs) :
            /\ jobs[i].case_number = case_number
            /\ \A j \in (i + 1)..Len(jobs) : jobs[j].case_number # case_number
    ELSE 0

\* the first job of JOBS.values() with that case_number, 0 when there is none
FindJob(jobs, case_number) ==
    IF \E i \in 1..Len(jobs) : jobs[i].case_number = case_number
    THEN CHOOSE i \in 1..Len(jobs) :
            /\ jobs[i].case_number = case_number
            /\ \A j \in 1..(i - 1) : jobs[j].case_number # case_number
    ELSE 0

Response(endpoint, status, detail) ==
    [endpoint |-> endpoint, status |-> status, detail |-> detail,
     summary_markdown |-> <<>>, sections |-> <<>>, meta |-> Meta(<<>>)]

InitService ==
    /\ env_max \in ServiceEnvMax
    /\ gemini_ok \in BOOLEAN
    /\ llm \in LLMStubs
    /\ JOBS = <<>>
    /\ pc = "idle"
    /\ NoRequest
    /\ http = NoResponse
    /\ NoSampleCall
    /\ NoExtractCall
    /\ NoProcess

\* POST /ingest with no file
ingest_no_files ==
    /\ pc = "idle"
    /\ http' = Response("ingest", 400, "no_files")
    /\ pc' = "responded"
    /\ UNCHANGED << JOBS, llm, runVars, configVars, sampleVars, extractVars, uiVars >>

\* POST /ingest: the first file is saved and a job is added, already "done"
ingest ==
    /\ pc = "idle"
    /\ Len(JOBS) < MaxJobs
    /\ \E case_number \in CaseNumbers, file \in 1..Len(UploadedPdfs) :
          JOBS' = Append(JOBS, [job_id |-> Len(JOBS) + 1, status |-> "done",
                                progress |-> 100, file_path |-> file,
                                case_number |-> case_number, has_meta |-> FALSE,
                                meta |-> Meta(<<>>)])
    /\ http' = Response("ingest", 200, "job_id")
    /\ pc' = "responded"
    /\ UNCHANGED << llm, runVars, configVars, sampleVars, extractVars, uiVars >>

\* POST /summarize, up to the call of _extract_text_from_pdf
summarize_begin ==
    /\ pc = "idle"
    /\ \E case_number \in CaseNumbers, action_type \in ActionTypes :
          LET ix == FindJob(JOBS, case_number)
          IN  /\ req' = [case_number |-> case_number, action_type |-> action_type,
                         llm_at_start |-> llm]
              /\ job_ix' = ix
              /\ IF ix = 0
                   THEN /\ http' = Response("summarize", 404, "job_not_found")
                        /\ pc' = "responded"
                 ELSE IF ~gemini_ok
                   THEN /\ http' = Response("summarize", 500, "gemini_not_configured")
                        /\ pc' = "responded"
                 ELSE /\ http' = NoResponse
                      /\ pc' = "extract"
    /\ UNCHANGED << JOBS, llm, extracted, base_text, meta, sections, calls, configVars,
                    sampleVars, extractVars, uiVars >>

\* the extraction step leaving JOBS as it is, the meta kept for the response only
summarize_extract_meta_unwritten ==
    /\ pc = "extract"
    /\ LET r == _extract_text_from_pdf(UploadedPdfs[JOBS[job_ix].file_path], env_max)
       IN  /\ extracted' = r.text
           /\ base_text' = IF r.text = <<>> THEN NO_TEXT_MSG ELSE r.text
           /\ meta' = r.meta
    /\ pc' = "agents"
    /\ UNCHANGED << JOBS, llm, req, job_ix, sections, calls, http, configVars, sampleVars,
                    extractVars, uiVars >>

\* base_text, meta = _extract_text_from_pdf(file_path); the job's meta is updated
summarize_extract ==
    /\ pc = "extract"
    /\ LET r == _extract_text_from_pdf(UploadedPdfs[JOBS[job_ix].file_path], env_max)
       IN  /\ extracted' = r.text
           /\ base_text' = IF r.text = <<>> THEN NO_TEXT_MSG ELSE r.text
           /\ meta' = r.meta
           /\ JOBS' = [JOBS EXCEPT ![job_ix].has_meta = TRUE, ![job_ix].meta = r.meta]
    /\ pc' = "agents"
    /\ UNCHANGED << llm, req, job_ix, sections, calls, http, configVars, sampleVars,
                    extractVars, uiVars >>

\* no call of generate_content is waiting for its answer
NoCallInFlight == IF calls = <<>> THEN TRUE ELSE calls[Len(calls)].outcome # "pending"

\* the reply has no character that is not white space
IsBlank(resp) == \A i \in 1..Len(TextOr(resp)) : TextOr(resp)[i] \in WHITESPACE

\* the loop entering a turn although the call of the turn before has not
\* come back, as a fan-out over the tasks would
agent_call_issue_fan_out ==
    /\ pc = "agents"
    /\ Len(calls) < Len(tasks)
    /\ calls' = Append(calls, [key |-> tasks[Len(calls) + 1].key, context |-> base_text,
                               outcome |-> "pending", blank |-> FALSE])
    /\ UNCHANGED << llm, JOBS, pc, req, job_ix, extracted, base_text, meta, sections, http,
                    configVars, sampleVars, extractVars, uiVars >>

\* one turn of the loop over tasks: text_model.generate_content(prompt) is
\* called; the loop waits for it
agent_call_issue ==
    /\ pc = "agents"
    /\ Len(calls) < Len(tasks)
    /\ NoCallInFlight
    /\ calls' = Append(calls, [key |-> tasks[Len(calls) + 1].key, context |-> base_text,
                               outcome |-> "pending", blank |-> FALSE])
    /\ UNCHANGED << llm, JOBS, pc, req, job_ix, extracted, base_text, meta, sections, http,
                    configVars, sampleVars, extractVars, uiVars >>

\* generate_content returns: sections[key] = (resp.text or "").strip()
agent_call_returns ==
    /\ pc = "agents"
    /\ ~NoCallInFlight
    /\ LLMMayReturn(llm)
    /\ LET task == tasks[Len(calls)]
       IN  \E resp \in LLMReplies(task) :
              /\ sections' = [k \in DOMAIN sections \cup {task.key} |->
                                IF k = task.key THEN ReplyText(resp) ELSE sections[k]]
              /\ calls' = [calls EXCEPT ![Len(calls)].outcome = "returned",
                                        ![Len(calls)].blank = IsBlank(resp)]
    /\ UNCHANGED << llm, JOBS, pc, req, job_ix, extracted, base_text, meta, http,
                    configVars, sampleVars, extractVars, uiVars >>

\* generate_content raises, and the exception leaves _run_execucao_agents
\* and is turned into HTTP 500 by summarize
agent_call_raises ==
    /\ pc = "agents"
    /\ ~NoCallInFlight
    /\ LLMMayRaise(llm)
    /\ calls' = [calls EXCEPT ![Len(calls)].outcome = "raised"]
    /\ llm' = LLMAfterRaise(llm)
    /\ http' = Response("summarize", 500, "exception")
    /\ pc' = "responded"
    /\ UNCHANGED << JOBS, req, job_ix, extracted, base_text, meta, sections, configVars,
                    sampleVars, extractVars, uiVars >>

\* after the loop: the report is assembled and returned
agents_return ==
    /\ pc = "agents"
    /\ Len(calls) = Len(tasks)
    /\ NoCallInFlight
    /\ http' = [endpoint |-> "summarize", status |-> 200, detail |-> "",
                summary_markdown |-> final_md(sections, req.action_type, req.case_number),
                sections |-> sections, meta |-> meta]
    /\ pc' = "responded"
    /\ UNCHANGED << llm, JOBS, runVars, configVars, sampleVars, extractVars, uiVars >>

\* the response is sent; the locals of the request are gone
request_end ==
    /\ pc = "responded"
    /\ pc' = "idle"
    /\ req' = [case_number |-> <<>>, action_type |-> <<>>, llm_at_start |-> llm]
    /\ job_ix' = 0
    /\ extracted' = <<>>
    /\ base_text' = <<>>
    /\ meta' = Meta(<<>>)
    /\ sections' = <<>>
    /\ calls' = <<>>
    /\ http' = NoResponse
    /\ UNCHANGED << llm, JOBS, configVars, sampleVars, extractVars, uiVars >>

\* POST /export/docx: the DOCX is always returned; the job of the case
\* number is looked up only for the annex of page images, that is when
\* include_planilha_images and case_number are given and pdf2image is there
export_docx ==
    /\ pc = "idle"
    /\ \E case_number \in CaseNumbers, lookup \in BOOLEAN :
          LET ix == IF lookup THEN FindJob(JOBS, case_number) ELSE 0
          IN  /\ req' = [case_number |-> case_number, action_type |-> <<>>,
                         llm_at_start |-> llm]
              /\ job_ix' = ix
              /\ http' = [endpoint |-> "export_docx", status |-> 200,
                          detail |-> IF lookup THEN "lookup" ELSE "text_only",
                          summary_markdown |-> <<>>, sections |-> <<>>,
                          meta |-> IF ix # 0 THEN JOBS[ix].meta ELSE Meta(<<>>)]
    /\ pc' = "responded"
    /\ UNCHANGED << JOBS, llm, extracted, base_text, meta, sections, calls, configVars,
                    sampleVars, extractVars, uiVars >>

Next ==
    \/ ingest_no_files
    \/ ingest
    \/ summarize_begin
    \/ summarize_extract
    \/ export_docx
    \/ agent_call_issue
    \/ agent_call_returns
    \/ agent_call_raises
    \/ agents_return
    \/ request_end

Spec == InitService /\ [][Next]_vars

(***************************************************************************)
(* The table processos of db.py and the administrator's page of ui.py      *)
(***************************************************************************)
MaxProcessos == 2

MaxNumeros == 2

\* the numbers of the cases the clients submit
NumerosProcesso == { Str(n) : n \in 1..MaxNumeros }

CONFERIDO ==
    << "C", "o", "n", "f", "e", "r", "i", "d", "o", " ", "p", "o", "r", " ", "u", "m",
       " ", "a", "d", "v", "o", "g", "a", "d", "o" >>

SEM_CONFERENCIA ==
    << "S", "e", "m", " ", "c", "o", "n", "f", "e", "r", "ê", "n", "c", "i", "a" >>

\* the options of the radio "Tipo de relatório desejado"
ConferenciaOptions == { CONFERIDO, SEM_CONFERENCIA }

StartsWith(s, prefix) ==
    /\ Len(s) >= Len(prefix)
    /\ SubSeq(s, 1, Len(prefix)) = prefix

\* the test sending the report to every client
sem_conferencia_any(conferencia) == TRUE

\* str(row.get("conferencia", "")).strip().lower().startswith("sem")
sem_conferencia(conferencia) == StartsWith(Lower(Strip(conferencia)), << "s", "e", "m" >>)

\* os.path.join(RELATORIOS_DIR, f"Sum_{row['numero_processo']}.docx")
caminho_relatorio(numero_processo) ==
    << "S", "u", "m", "_" >> \o numero_processo \o << ".", "d", "o", "c", "x" >>

\* INSERT INTO processos ... status 'pendente', caminho_relatorio NULL (the
\* empty path here: every path of a report is non-empty)
salvar_processo(table, proc_id, numero, conferencia) ==
    table \cup { [id |-> proc_id, numero_processo |-> numero, conferencia |-> conferencia,
                  status |-> "pendente", caminho_relatorio |-> <<>>] }

\* SELECT * FROM processos WHERE status = ?
listar_processos(table, status) == { r \in table : r.status = status }

\* UPDATE processos SET status = ? WHERE id = ?
atualizar_status(table, proc_id, novo_status) ==
    { IF r.id = proc_id THEN [r EXCEPT !.status = novo_status] ELSE r : r \in table }

\* the update writing the path and leaving the status as it is
registrar_relatorio_path_only(table, proc_id, caminho_docx) ==
    { IF r.id = proc_id THEN [r EXCEPT !.caminho_relatorio = caminho_docx] ELSE r :
      r \in table }

\* UPDATE processos SET caminho_relatorio = ?, status = 'finalizado' WHERE id = ?
registrar_relatorio(table, proc_id, caminho_docx) ==
    { IF r.id = proc_id
      THEN [r EXCEPT !.caminho_relatorio = caminho_docx, !.status = "finalizado"]
      ELSE r : r \in table }

\* DELETE FROM processos WHERE id = ?
excluir_processo_e_arquivo(table, processo_id) == { r \in table : r.id # processo_id }

InitUI ==
    /\ NoSampleCall
    /\ NoExtractCall
    /\ env_max = DEFAULT_MAX_PDF_CHARS
    /\ gemini_ok \in BOOLEAN
    /\ llm = [mode |-> "free", fails_left |-> 0]
    /\ JOBS = <<>>
    /\ pc = "idle"
    /\ NoRequest
    /\ http = NoResponse
    /\ NoProcess

\* the steps make the processing end: st.stop() or an exception caught by
\* the except clauses of the button
Stopped ==
    /\ ui_pc' = "idle"
    /\ UNCHANGED << processos, ids_used, row, steps, relatorios >>

Succeeded(step, next_pc) ==
    /\ steps' = Append(steps, step)
    /\ ui_pc' = next_pc

\* "Enviar processo" of the client's page, in a session of its own
enviar_processo ==
    /\ ids_used < MaxProcessos
    /\ \E numero \in NumerosProcesso, conferencia \in ConferenciaOptions :
          processos' = salvar_processo(processos, ids_used + 1, numero, conferencia)
    /\ ids_used' = ids_used + 1
    /\ UNCHANGED << ui_pc, row, steps, relatorios, sampleVars, extractVars, serviceVars >>

\* "Excluir" on a row of the pending list
excluir ==
    /\ ui_pc = "idle"
    /\ \E r \in listar_processos(processos, "pendente") :
          processos' = excluir_processo_e_arquivo(processos, r.id)
    /\ UNCHANGED << ids_used, ui_pc, row, steps, relatorios, sampleVars, extractVars,
                    serviceVars >>

\* "Processar automaticamente" on a row of the pending list, enabled when
\* /health says Gemini is configured; the handler runs to the call of /ingest
processar_automaticamente ==
    /\ ui_pc = "idle"
    /\ gemini_ok
    /\ \E r \in listar_processos(processos, "pendente") : row' = r
    /\ steps' = <<>>
    /\ ui_pc' = "ingest"
    /\ UNCHANGED << processos, ids_used, relatorios, sampleVars, extractVars, serviceVars >>

\* 1) api_ingest answers: a job_id, no job_id, or an HTTP error
api_ingest ==
    /\ ui_pc = "ingest"
    /\ \E outcome \in {"job_id", "no_job_id", "http_error"} :
          IF outcome = "job_id"
          THEN Succeeded("ingest", "status") /\ UNCHANGED << processos, ids_used, row, relatorios >>
          ELSE Stopped
    /\ UNCHANGED << sampleVars, extractVars, serviceVars >>

\* 2) the polling loop ends: status done, status error, or api_status raised
api_status ==
    /\ ui_pc = "status"
    /\ \E outcome \in {"done", "error", "raised"} :
          IF outcome = "done"
          THEN Succeeded("status_done", "summarize")
               /\ UNCHANGED << processos, ids_used, row, relatorios >>
          ELSE Stopped
    /\ UNCHANGED << sampleVars, extractVars, serviceVars >>

\* 3) api_summarize answers: a report, an empty report, or an HTTP error
api_summarize ==
    /\ ui_pc = "summarize"
    /\ \E outcome \in {"summary_markdown", "empty", "http_error"} :
          IF outcome = "summary_markdown"
          THEN Succeeded("summarize", "export")
               /\ UNCHANGED << processos, ids_used, row, relatorios >>
          ELSE Stopped
    /\ UNCHANGED << sampleVars, extractVars, serviceVars >>

\* 4) api_export_docx answers: the bytes of a DOCX, no bytes, or an HTTP error
api_export_docx ==
    /\ ui_pc = "export"
    /\ \E outcome \in {"docx_bytes", "empty", "http_error"} :
          IF outcome = "docx_bytes"
          THEN Succeeded("export", "write")
               /\ UNCHANGED << processos, ids_used, row, relatorios >>
          ELSE Stopped
    /\ UNCHANGED << sampleVars, extractVars, serviceVars >>

\* the bytes are written to caminho_relatorio and the file is checked
write_docx ==
    /\ ui_pc = "write"
    /\ \E outcome \in {"written", "os_error"} :
          IF outcome = "written"
          THEN /\ relatorios' = relatorios \cup {caminho_relatorio(row.numero_processo)}
               /\ Succeeded("docx_written", "registrar")
               /\ UNCHANGED << processos, ids_used, row >>
          ELSE Stopped
    /\ UNCHANGED << sampleVars, extractVars, serviceVars >>

\* registrar_relatorio(row["id"], caminho_docx=caminho_relatorio), then the
\* test of the conferencia of the row
registrar ==
    /\ ui_pc = "registrar"
    /\ processos' = registrar_relatorio(processos, row.id,
                                        caminho_relatorio(row.numero_processo))
    /\ Succeeded("registrar_relatorio",
                 IF sem_conferencia(row.conferencia) THEN "finalizar" ELSE "idle")
    /\ UNCHANGED << ids_used, row, relatorios, sampleVars, extractVars, serviceVars >>

\* finalizar_processo_e_enviar: atualizar_status(processo_id, "finalizado")
finalizar_processo_e_enviar ==
    /\ ui_pc = "finalizar"
    /\ processos' = atualizar_status(processos, row.id, "finalizado")
    /\ Succeeded("atualizar_status", "email")
    /\ UNCHANGED << ids_used, row, relatorios, sampleVars, extractVars, serviceVars >>

\* enviar_email_cliente: the message is sent, the credentials are missing,
\* or SMTP raises
enviar_email_cliente ==
    /\ ui_pc = "email"
    /\ \E outcome \in {"sent", "no_credentials", "smtp_error"} :
          IF outcome = "sent"
          THEN Succeeded("email", "idle") /\ UNCHANGED << processos, ids_used, row, relatorios >>
          ELSE Stopped
    /\ UNCHANGED << sampleVars, extractVars, serviceVars >>

NextUI ==
    \/ enviar_processo
    \/ excluir
    \/ processar_automaticamente
    \/ api_ingest
    \/ api_status
    \/ api_summarize
    \/ api_export_docx
    \/ write_docx
    \/ registrar
    \/ finalizar_processo_e_enviar
    \/ enviar_email_cliente

SpecUI == InitUI /\ [][NextUI]_vars

(***************************************************************************)
(* Properties                                                              *)
(***************************************************************************)

\* C1: the text _extract_text_from_pdf returns is never longer than the
\* effective budget max_chars = min(MAX_PDF_CHARS, HARD_CAP_CHARS), whatever
\* the document and the budget.
C1_BudgetNeverExceeded ==
    extract_out.returned =>
        Len(extract_out.text) <= effective_max_chars(extract_in.env_max)

\* C2: _build_global_sample(text, max_chars) returns text itself whenever
\* len(text) <= max_chars: same characters, same length, no separator.
C2_IdentityWithinBudget ==
    (sample_out.returned /\ Len(sample_in.full_text) <= sample_in.max_chars) =>
        sample_out.value = sample_in.full_text

\* a non-empty text that exactly fills its budget has been sampled
C2_Witness ==
    /\ sample_out.returned
    /\ Len(sample_in.full_text) = sample_in.max_chars
    /\ sample_in.max_chars > 0
    /\ sample_out.value = sample_in.full_text

\* a /summarize request has been answered
Summarized == pc = "responded" /\ http.endpoint = "summarize"

\* the calls of generate_content made for the section key
CallsFor(key) == SelectSeq(calls, LAMBDA c : c.key = key)

\* C3: when the context handed to the agents is blank after trimming, no
\* call of the LLM is made for any section and every section of the report
\* is exactly "## <Title>\n\nNão informado.".
C3_EmptyContextPlaceholder ==
    (pc \in {"agents", "responded"} /\ job_ix # 0 /\ gemini_ok
     /\ Strip(base_text) = <<>>) =>
        /\ calls = <<>>
        /\ (Summarized /\ http.status = 200) =>
              \A i \in 1..Len(tasks) :
                 SectionPart(http.sections, tasks[i].key) = Placeholder(tasks[i].title)

\* C4: when the LLM call of one section raises, that section alone becomes
\* the placeholder; the other sections are still attempted and the report
\* is returned.
C4_SectionFailureIsolated ==
    (Summarized /\ \E i \in 1..Len(calls) : calls[i].outcome = "raised") =>
        /\ http.status = 200
        /\ \A t \in 1..Len(tasks) : CallsFor(tasks[t].key) # <<>>
        /\ \A i \in 1..Len(calls) :
              calls[i].outcome = "raised" =>
                 SectionPart(http.sections, calls[i].key) = Placeholder(TitleOf(calls[i].key))

\* the part of the report for the section key: what the LLM answered to
\* the prompt of that section, trimmed, or the placeholder with its title
C5_Part(key, title) ==
    IF http.sections[key] = <<>> THEN << "#", "#", " " >> \o title \o NAO_INFORMADO
    ELSE http.sections[key]

\* C5: a report that is returned is the banner naming action type and case
\* number followed by exactly six sections, in the order cabecalho,
\* resumo_inicial, penhora, valores_planilhas, movimentacoes,
\* analise_juridica, each the answer to its own prompt or its placeholder.
C5_FixedOrderAndShape ==
    (Summarized /\ http.status = 200) =>
        /\ DOMAIN http.sections =
              {"cabecalho", "resumo_inicial", "penhora", "valores_planilhas",
               "movimentacoes", "analise_juridica"}
        /\ \A t \in 1..Len(tasks) :
              \/ http.sections[tasks[t].key] = <<>>
              \/ \E resp \in LLMReplies(tasks[t]) :
                    http.sections[tasks[t].key] = Strip(TextOr(resp))
        /\ http.summary_markdown =
              BANNER_A \o req.action_type \o << " ", "(" >> \o req.case_number
              \o << ")", "\n" >>
              \o PARA \o C5_Part("cabecalho", TITLE_cabecalho)
              \o PARA \o C5_Part("resumo_inicial", TITLE_resumo_inicial)
              \o PARA \o C5_Part("penhora", TITLE_penhora)
              \o PARA \o C5_Part("valores_planilhas", TITLE_valores_planilhas)
              \o PARA \o C5_Part("movimentacoes", TITLE_movimentacoes)
              \o PARA \o C5_Part("analise_juridica", TITLE_analise_juridica)

\* a report was returned in which one section is a placeholder and its two
\* neighbours are texts of the LLM
C5_Witness ==
    /\ Summarized
    /\ http.status = 200
    /\ http.sections["penhora"] = <<>>
    /\ http.sections["resumo_inicial"] # <<>>
    /\ http.sections["valores_planilhas"] # <<>>

\* C6: with an LLM that fails twice and then succeeds, the first section is
\* called a third time, ends in success, and the report carries the text
\* the LLM returned for it.
C6_RecoversOnThirdCall ==
    (Summarized /\ calls # <<>>
     /\ req.llm_at_start = [mode |-> "script", fails_left |-> 2]) =>
        /\ http.status = 200
        /\ Len(CallsFor(tasks[1].key)) = 3
        /\ CallsFor(tasks[1].key)[3].outcome = "returned"
        /\ http.sections[tasks[1].key] = sections[tasks[1].key]

\* C7: a section is given up only after its retries and then one fallback
\* call whose context is the first 20,000 characters of the section
\* context, itself retried once: three calls with the full context, then
\* two with the reduced one.
C7_FallbackBeforeFailure ==
    (Summarized /\ calls # <<>> /\ calls[Len(calls)].outcome = "raised") =>
        LET mine == CallsFor(calls[Len(calls)].key)
        IN  /\ Len(mine) = 5
            /\ \A i \in 1..3 : mine[i].context = base_text
            /\ \A i \in 4..5 : mine[i].context = Prefix(base_text, 20000)

\* C8: when every call of the LLM fails, all six sections are attempted and
\* each becomes its placeholder, and the request is answered as a failure,
\* not as a report.
C8_TotalOutage ==
    (Summarized /\ calls # <<>> /\ req.llm_at_start.mode = "down") =>
        /\ \A t \in 1..Len(tasks) : CallsFor(tasks[t].key) # <<>>
        /\ \A t \in 1..Len(tasks) :
              SectionPart(sections, tasks[t].key) = Placeholder(tasks[t].title)
        /\ http.status # 200

\* C9: when the PDF yields no character at all, /summarize makes no call of
\* the LLM and does not answer with a report.
C9_NoExtractableText ==
    (pc \in {"agents", "responded"} /\ job_ix # 0 /\ gemini_ok /\ extracted = <<>>) =>
        /\ calls = <<>>
        /\ ~(Summarized /\ http.status = 200)

\* C10: text_by_page has one entry per page of the PDF, and the entry of a
\* page whose extract_text() raised is the empty string.
C10_OneEntryPerPage ==
    (extract_out.returned /\ extract_in.pdf.readable) =>
        /\ Len(extract_out.text_by_page) = Len(extract_in.pdf.pages)
        /\ \A i \in 1..Len(extract_in.pdf.pages) :
              extract_in.pdf.pages[i].text.kind = "raise" =>
                 extract_out.text_by_page[i] = <<>>

\* the set of the numbers in a page list
PageSet(pages) == { pages[i] : i \in 1..Len(pages) }

\* C11: page p is among the pages the extraction reports iff the text of
\* page p, put in lower case, contains one of the keywords as a substring;
\* a page with "sisbajud" in any letter case is reported, a page of
\* unrelated text is not.
C11_ReportedIffKeyword ==
    extract_out.returned =>
        /\ \A p \in 1..Len(extract_out.text_by_page) :
              LET lowered == Lower(extract_out.text_by_page[p])
              IN  (p \in PageSet(extract_out.meta.planilha_pages)) <=>
                     (\E k \in 1..Len(keywords) : Contains(lowered, keywords[k]))
        /\ \A p \in PageSet(extract_out.meta.planilha_pages) :
              p \in 1..Len(extract_out.text_by_page)
        /\ \A p \in 1..Len(extract_out.text_by_page) :
              /\ Contains(Lower(extract_out.text_by_page[p]), KW_sisbajud) =>
                    p \in PageSet(extract_out.meta.planilha_pages)
              /\ extract_out.text_by_page[p] \in {ABCDE, LongText} =>
                    p \notin PageSet(extract_out.meta.planilha_pages)

\* a document whose first page is unrelated text and whose second page has
\* "SisbaJUD" in mixed case was read: page 2 alone is reported
C11_Witness ==
    /\ extract_out.returned
    /\ Len(extract_out.text_by_page) = 2
    /\ extract_out.text_by_page[1] = ABCDE
    /\ extract_out.text_by_page[2] = << "S", "i", "s", "b", "a", "J", "U", "D" >>
    /\ extract_out.meta.planilha_pages = << 2 >>

\* C12: the list of reported pages never has more than 12 entries, however
\* many pages of the document carry a keyword.
C12_AtMostTwelvePages ==
    extract_out.returned => Len(extract_out.meta.planilha_pages) <= 12

\* C13: the reported pages are 1-based page numbers of the document in
\* strictly ascending order: no number twice, each within 1..page count.
C13_StrictlyAscendingInRange ==
    extract_out.returned =>
        LET found == extract_out.meta.planilha_pages
        IN  /\ \A i \in 1..Len(found) : found[i] \in 1..Len(extract_in.pdf.pages)
            /\ \A i \in 1..Len(found) : \A j \in 1..Len(found) :
                  i < j => found[i] < found[j]

\* a document with a keyword on its first and on its last page and none on
\* the page between was read
C13_Witness ==
    /\ extract_out.returned
    /\ Len(extract_in.pdf.pages) = 3
    /\ extract_out.meta.planilha_pages = << 1, 3 >>

\* the 0-based positions at which needle occurs in hay
Occurrences(hay, needle) ==
    { i \in 0..(Len(hay) - Len(needle)) : SubSeq(hay, i + 1, i + Len(needle)) = needle }

\* the text quotes none of the three labels of the sample
QuotesNoLabel(text) ==
    /\ ~Contains(text, SEP_CENTRAL)
    /\ ~Contains(text, SEP_PRE_FINAL)
    /\ ~Contains(text, SEP_FINAL)

\* the sample of a text longer than its budget has been built
Sampled == sample_out.returned /\ Len(sample_in.full_text) > sample_in.max_chars

PagesJoined ==
    IF extract_out.text_by_page = <<>> THEN <<>> ELSE Join(PARA, extract_out.text_by_page)

\* the budget of the call: MAX_PDF_CHARS, or 80000 when that is larger
BudgetOfCall == IF extract_in.env_max <= 80000 THEN extract_in.env_max ELSE 80000

\* the numbers of the pages read that carry a keyword
KeywordPageSet ==
    { q \in 1..Len(extract_out.text_by_page) :
         LET lowered == Lower(extract_out.text_by_page[q])
         IN  \E k \in 1..Len(keywords) : Contains(lowered, keywords[k]) }

\* C15: when no page carries a keyword and the full text is longer than the
\* budget, the text returned is exactly the global sample of the full text
\* built with the whole budget max_chars, without any hotspot block, and
\* the list of relevant pages is empty.
C15_NoHotspotFullBudget ==
    (extract_out.returned /\ KeywordPageSet = {} /\ Len(PagesJoined) > BudgetOfCall) =>
        /\ extract_out.text = _build_global_sample(PagesJoined, BudgetOfCall)
        /\ ~Contains(extract_out.text, Strip(HOT_HEAD_A))
        /\ extract_out.meta.planilha_pages = <<>>

\* a document of 245 characters without keyword was read under a budget of
\* 100: the text returned has four zones of 25 characters
C15_Witness ==
    /\ extract_out.returned
    /\ KeywordPageSet = {}
    /\ extract_in.env_max = 100
    /\ Len(PagesJoined) > 2 * LongPageLen
    /\ Len(extract_out.text) = 100 + Len(SEP_CENTRAL) + Len(SEP_PRE_FINAL) + Len(SEP_FINAL)

C17_BudgetClamped ==
    extract_out.returned =>
        \A i \in 1..Len(extract_out.log) :
            /\ extract_out.log[i] = BudgetOfCall
            /\ extract_out.log[i] <= HARD_CAP_CHARS
            /\ HARD_CAP_CHARS = 80000

\* a document was read under MAX_PDF_CHARS = 80001 and the budget logged
\* is 80000
C17_Witness ==
    /\ extract_out.returned
    /\ extract_in.env_max > HARD_CAP_CHARS
    /\ extract_out.log = << HARD_CAP_CHARS >>

\* the quarter of the budget sample_in.max_chars, or the budget itself when
\* the quarter is 0
QuarterOfBudget ==
    IF sample_in.max_chars \div 4 = 0 THEN sample_in.max_chars
    ELSE sample_in.max_chars \div 4

\* C19: the sample of a text longer than the budget begins with the first
\* part characters of the text followed by the central label and ends with
\* the final label followed by the last part characters of the text, part
\* being max_chars // 4, or max_chars when that is 0; for every budget from
\* 0 on.
C19_StartAndEndZones ==
    Sampled =>
        LET out == sample_out.value
            text == sample_in.full_text
            part == QuarterOfBudget
        IN  /\ SubSeq(out, 1, part + Len(SEP_CENTRAL)) = SubSeq(text, 1, part) \o SEP_CENTRAL
            /\ SubSeq(out, Len(out) - part - Len(SEP_FINAL) + 1, Len(out)) =
                  SEP_FINAL \o SubSeq(text, Len(text) - part + 1, Len(text))

\* C20: for a text longer than a budget of at least 1, the four zones of
\* the sample, its three labels left out, have together at most max_chars
\* characters.
C20_ZonesWithinBudget ==
    (Sampled /\ sample_in.max_chars >= 1) =>
        Len(sample_out.value) - Len(SEP_CENTRAL) - Len(SEP_PRE_FINAL) - Len(SEP_FINAL)
            <= sample_in.max_chars

\* where the section key stands: PENDING while generate_content has not been
\* called for it, SUCCESS when its last call returned, FAILED when it raised
SectionState(key) ==
    IF CallsFor(key) = <<>> THEN "PENDING"
    ELSE IF CallsFor(key)[Len(CallsFor(key))].outcome = "returned" THEN "SUCCESS"
    ELSE "FAILED"

\* C18: whatever the LLM does, once _run_execucao_agents is over every
\* section has reached a terminal state, SUCCESS or FAILED (CONTEXT_EMPTY
\* when the context is blank), after a bounded number of calls: at most
\* three with the full context and two with the reduced one.
C18_EverySectionTerminal ==
    (Summarized /\ job_ix # 0 /\ gemini_ok) =>
        \A t \in 1..Len(tasks) :
            /\ Len(CallsFor(tasks[t].key)) <= 5
            /\ \/ SectionState(tasks[t].key) \in {"SUCCESS", "FAILED"}
               \/ Strip(base_text) = <<>>

\* C21: the pre-end zone of the sample of a text longer than the budget is
\* the part characters of the text that start at max(0, total_len - 2*part),
\* and when total_len >= 2*part the end zone starts in the text where the
\* pre-end zone stops.
C21_PreEndZone ==
    Sampled =>
        LET out == sample_out.value
            text == sample_in.full_text
            part == QuarterOfBudget
            start == IF Len(text) - 2 * part > 0 THEN Len(text) - 2 * part ELSE 0
            zone == SubSeq(text, start + 1, start + part)
        IN  \E f \in Occurrences(out, SEP_FINAL) :
               /\ Len(zone) = part
               /\ f >= part + Len(SEP_PRE_FINAL)
               /\ SubSeq(out, f - part - Len(SEP_PRE_FINAL) + 1, f) = SEP_PRE_FINAL \o zone
               /\ Len(text) >= 2 * part =>
                     SubSeq(out, f + 1, Len(out)) =
                        SEP_FINAL \o SubSeq(text, start + part + 1, Len(text))

\* the hotspot blocks of the pages read, in page order, joined and trimmed
BlocksJoined == Strip(Concat(hotspot_parts(extract_in.pdf, extract_out.text_by_page)))

\* the characters reserved for the hotspots: six tenths of the budget
ReservedForHotspots == (BudgetOfCall * 6) \div 10

\* the hotspot text the claims C22, C23 and C27 speak of
HotspotUsed ==
    LET joined == BlocksJoined
    IN  IF Len(joined) > ReservedForHotspots
        THEN SubSeq(joined, 1, ReservedForHotspots)
        ELSE joined

\* a document longer than the budget with at least one keyword page was read
HotspotsOverBudget ==
    /\ extract_out.returned
    /\ Len(PagesJoined) > BudgetOfCall
    /\ KeywordPageSet # {}

\* C22: the text returned for a document over the budget begins with the
\* hotspot text, which is the first int(max_chars * 0.6) characters of the
\* hotspot blocks joined in page order when these are longer than that, and
\* all of them otherwise; what is cut is the end, the later pages.
C22_HotspotPrefixKept ==
    HotspotsOverBudget =>
        LET used == HotspotUsed
        IN  /\ Len(used) <= ReservedForHotspots
            /\ SubSeq(extract_out.text, 1, Len(used)) = used
            /\ \/ extract_out.text = used
               \/ SubSeq(extract_out.text, Len(used) + 1, Len(used) + Len(SEP_GLOBAL))
                     = SEP_GLOBAL

\* a document with two keyword pages was read under a budget of 100: the
\* blocks are longer than 60 characters and the 60 kept are their beginning
C22_Witness ==
    /\ HotspotsOverBudget
    /\ extract_in.env_max = 100
    /\ Cardinality(KeywordPageSet) = 2
    /\ Len(BlocksJoined) > 60
    /\ SubSeq(extract_out.text, 1, 60) = SubSeq(BlocksJoined, 1, 60)

\* C23: when there are hotspots and remaining = max_chars - len(hotspot_text)
\* is positive, the text returned is the hotspot text, the label of the
\* global sample, and the sample of the whole full_text built with the
\* budget remaining.
C23_SampleWithLeftoverBudget ==
    HotspotsOverBudget =>
        LET used == HotspotUsed
        IN  BudgetOfCall - Len(used) > 0 =>
               extract_out.text =
                  used \o SEP_GLOBAL
                  \o _build_global_sample(PagesJoined, BudgetOfCall - Len(used))

\* a document with a short keyword page was read under a budget whose
\* share for the hotspots holds the whole block: the hotspot text is not
\* cut and the sample gets what it leaves
C23_Witness ==
    /\ HotspotsOverBudget
    /\ Len(BlocksJoined) < ReservedForHotspots
    /\ extract_out.text =
          BlocksJoined \o SEP_GLOBAL
          \o _build_global_sample(PagesJoined, BudgetOfCall - Len(BlocksJoined))

\* C27: for a budget of at least 1 and a document with hotspots, the
\* hotspot text leaves a positive remainder of the budget, and the text
\* returned is never the hotspot text alone: the label of the global sample
\* and a sample follow it.
C27_HotspotsNeverAlone ==
    (HotspotsOverBudget /\ BudgetOfCall >= 1) =>
        LET used == HotspotUsed
        IN  /\ BudgetOfCall - Len(used) > 0
            /\ extract_out.text # used
            /\ Len(extract_out.text) > Len(used) + Len(SEP_GLOBAL)
            /\ SubSeq(extract_out.text, Len(used) + 1, Len(used) + Len(SEP_GLOBAL))
                  = SEP_GLOBAL

\* a document whose hotspot blocks alone are longer than the budget was read
C27_Witness ==
    /\ HotspotsOverBudget
    /\ Len(BlocksJoined) > BudgetOfCall
    /\ BudgetOfCall >= 20
    /\ Len(extract_out.text) > Len(HotspotUsed) + Len(SEP_GLOBAL)

\* C24: within a /summarize request the calls of the LLM are made in the
\* order of the six tasks, one at a time: a call is made only when every
\* call before it has returned, and at most one call is waiting for its
\* answer.
C24_OneCallAtATime ==
    /\ Len(calls) <= Len(tasks)
    /\ \A i \in 1..Len(calls) :
          /\ calls[i].key = tasks[i].key
          /\ i < Len(calls) => calls[i].outcome = "returned"
    /\ Cardinality({ i \in 1..Len(calls) : calls[i].outcome = "pending" }) <= 1

\* the call of the third section is waiting for its answer, the calls of
\* the first two sections have returned
C24_Witness ==
    /\ pc = "agents"
    /\ Len(calls) = 3
    /\ calls[1].outcome = "returned"
    /\ calls[2].outcome = "returned"
    /\ calls[3].outcome = "pending"
    /\ calls[3].key = "penhora"

\* the part of the report for the i-th call: the placeholder with the title
\* when the LLM answered blank, the section text otherwise
C25_Part(i) ==
    IF calls[i].blank
    THEN << "#", "#", " " >> \o tasks[i].title
         \o << "\n", "\n", "N", "ã", "o", " ", "i", "n", "f", "o", "r", "m", "a", "d", "o", "." >>
    ELSE http.sections[calls[i].key]

\* C25: in a report that is returned, a section for which the LLM answered
\* nothing or white space only is "## <Title>\n\nNão informado." at its
\* place in the report while the section map holds the empty string for
\* it; any other answer is in the map and in the report trimmed and
\* otherwise as it came, with no title put before it.
C25_EmptyResultPlaceholder ==
    (Summarized /\ http.status = 200) =>
        /\ Len(calls) = 6
        /\ \A i \in 1..Len(calls) :
              IF calls[i].blank
              THEN http.sections[calls[i].key] = <<>>
              ELSE \E resp \in LLMReplies(tasks[i]) :
                      /\ ~IsBlank(resp)
                      /\ http.sections[calls[i].key] = Strip(TextOr(resp))
        /\ http.summary_markdown =
              BANNER_A \o req.action_type \o << " ", "(" >> \o req.case_number
              \o << ")", "\n" >>
              \o PARA \o C25_Part(1) \o PARA \o C25_Part(2) \o PARA \o C25_Part(3)
              \o PARA \o C25_Part(4) \o PARA \o C25_Part(5) \o PARA \o C25_Part(6)

\* a report was returned for which the LLM answered blank for the first
\* section and a text for the second
C25_Witness ==
    /\ Summarized
    /\ http.status = 200
    /\ calls[1].blank
    /\ ~calls[2].blank
    /\ http.sections["cabecalho"] = <<>>
    /\ http.sections["resumo_inicial"] # <<>>

\* the positions in JOBS of the jobs with the case number of the request
JobsOfCase == { i \in 1..Len(JOBS) : JOBS[i].case_number = req.case_number }

\* the request being served has searched JOBS for its case number
JobLookedUp ==
    \/ pc \in {"extract", "agents"}
    \/ Summarized
    \/ pc = "responded" /\ http.endpoint = "export_docx" /\ http.detail = "lookup"

\* C28: /summarize and /export/docx resolve a case number to the same job,
\* the one of the earliest /ingest with that case number, whatever was
\* ingested later; and no step removes a job or changes the job_id,
\* status, progress, file_path or case_number of a job.
C28_EarliestJobResolved ==
    /\ [](JobLookedUp =>
            /\ job_ix = 0 <=> JobsOfCase = {}
            /\ job_ix # 0 =>
                  /\ job_ix \in JobsOfCase
                  /\ \A i \in JobsOfCase : job_ix <= i)
    /\ [][ /\ Len(JOBS') >= Len(JOBS)
           /\ \A i \in 1..Len(JOBS) :
                 /\ JOBS'[i].job_id = JOBS[i].job_id
                 /\ JOBS'[i].status = JOBS[i].status
                 /\ JOBS'[i].progress = JOBS[i].progress
                 /\ JOBS'[i].file_path = JOBS[i].file_path
                 /\ JOBS'[i].case_number = JOBS[i].case_number]_vars

\* two files were ingested under the same case number, the case was
\* summarised, and /export/docx resolved it to the first job, the one
\* whose meta /summarize wrote
C28_Witness ==
    /\ Len(JOBS) = 2
    /\ JOBS[1].case_number = JOBS[2].case_number
    /\ JOBS[1].file_path # JOBS[2].file_path
    /\ pc = "responded"
    /\ http.endpoint = "export_docx"
    /\ http.detail = "lookup"
    /\ job_ix = 1
    /\ JOBS[1].has_meta
    /\ ~JOBS[2].has_meta

\* C30: /summarize has written the meta of the extraction into the job
\* it resolved before the first call of the LLM is made and the job keeps
\* it when a call raises and the request ends in HTTP 500; writing it
\* changes nothing else in that job and nothing in any other job, and the
\* calls of the LLM change no job.
C30_MetaWrittenBeforeCalls ==
    /\ []((pc = "agents" \/ (Summarized /\ http.detail = "exception")) =>
            /\ JOBS[job_ix].has_meta
            /\ JOBS[job_ix].meta = meta)
    /\ []((Summarized /\ calls # <<>> /\ calls[Len(calls)].outcome = "raised") =>
            http.status = 500)
    /\ [][ /\ pc = "extract" =>
                /\ Len(JOBS') = Len(JOBS)
                /\ \A i \in 1..Len(JOBS) :
                      IF i = job_ix
                      THEN [JOBS'[i] EXCEPT !.has_meta = JOBS[i].has_meta,
                                            !.meta = JOBS[i].meta] = JOBS[i]
                      ELSE JOBS'[i] = JOBS[i]
           /\ pc = "agents" => JOBS' = JOBS]_vars

\* a request for a document with a keyword page ended in HTTP 500 after a
\* call of the LLM raised, and the job holds the pages of the extraction
C30_Witness ==
    /\ Summarized
    /\ http.status = 500
    /\ calls # <<>>
    /\ Len(JOBS) = 2
    /\ job_ix = 2
    /\ JOBS[2].has_meta
    /\ JOBS[2].meta.planilha_pages # <<>>
    /\ ~JOBS[1].has_meta

\* C26: a row that appears in processos is 'pendente' with no report
\* path; the step of registrar_relatorio leaves the row of its process
\* with the report path and 'finalizado' at once, and a report path never
\* changes in any other way; a row that is 'finalizado' never becomes
\* 'pendente' again.
C26_ProcessLifecycle ==
    /\ [][\A r2 \in processos' :
             (\A r \in processos : r.id # r2.id) =>
                 /\ r2.status = "pendente"
                 /\ r2.caminho_relatorio = <<>>]_vars
    /\ [][\A r \in processos, r2 \in processos' :
             r.id = r2.id =>
                 /\ r.status = "finalizado" => r2.status # "pendente"
                 /\ r2.caminho_relatorio # r.caminho_relatorio =>
                       /\ ui_pc = "registrar"
                       /\ r2.status = "finalizado"]_vars
    /\ [][(ui_pc = "registrar" /\ ui_pc' # "registrar") =>
             \A r2 \in processos' :
                 r2.id = row.id =>
                     /\ r2.caminho_relatorio = caminho_relatorio(row.numero_processo)
                     /\ r2.status = "finalizado"]_vars
    /\ [](\A r \in processos : r.caminho_relatorio # <<>> => r.status = "finalizado")

\* a report was registered for one process while another is still pending
C26_Witness ==
    /\ steps # <<>>
    /\ steps[Len(steps)] = "registrar_relatorio"
    /\ \E r \in processos :
          /\ r.id = row.id
          /\ r.status = "finalizado"
          /\ r.caminho_relatorio = caminho_relatorio(r.numero_processo)
    /\ \E r \in processos :
          /\ r.status = "pendente"
          /\ r.caminho_relatorio = <<>>

\* the steps of the automatic processing, in the order of the handler
AutomaticSteps ==
    << "ingest", "status_done", "summarize", "export", "docx_written",
       "registrar_relatorio", "atualizar_status", "email" >>

\* the steps done are the first steps of AutomaticSteps, none left out
StepsInOrder ==
    /\ Len(steps) <= Len(AutomaticSteps)
    /\ \A i \in 1..Len(steps) : steps[i] = AutomaticSteps[i]

EmailSent == Len(steps) = 8 /\ steps[8] = "email"

\* a row leaves 'pendente' only in the processing of that row, after the
\* DOCX was written and while the file is there; while the processing is
\* at an earlier step no row changes its status, and when it stops there
\* the row processed is still 'pendente'
StatusSteps ==
    /\ \A r \in processos, r2 \in processos' :
          (r.id = r2.id /\ r.status = "pendente" /\ r2.status # "pendente") =>
              /\ r.id = row.id
              /\ Len(steps) >= 5
              /\ steps[5] = "docx_written"
              /\ caminho_relatorio(row.numero_processo) \in relatorios
    /\ ui_pc \in {"ingest", "status", "summarize", "export", "write"} =>
          /\ \A r \in processos, r2 \in processos' : r.id = r2.id => r2.status = r.status
          /\ ui_pc' = "idle" => \A r2 \in processos' : r2.id = row.id => r2.status = "pendente"

\* C29 as stated: the steps of the automatic processing happen in the
\* order ingest, status done, summarize, export, DOCX written,
\* registrar_relatorio; a process leaves 'pendente' only after the DOCX was
\* written and a failure of an earlier step leaves it 'pendente'; the
\* e-mail is sent only after registrar_relatorio and only when the
\* conferencia of the process starts with "sem".
C29_EmailWhenStartsWithSem ==
    /\ [](StepsInOrder)
    /\ [][StatusSteps]_vars
    /\ [](EmailSent =>
            /\ steps[6] = "registrar_relatorio"
            /\ StartsWith(row.conferencia, << "s", "e", "m" >>))

\* C29: the same, the e-mail being sent only when the conferencia of the
\* process, trimmed and in lower case, starts with "sem".
C29_EmailWhenStartsWithSemAnyCase ==
    /\ [](StepsInOrder)
    /\ [][StatusSteps]_vars
    /\ [](EmailSent =>
            /\ steps[6] = "registrar_relatorio"
            /\ StartsWith(Lower(Strip(row.conferencia)), << "s", "e", "m" >>))

\* a process sent with "Sem conferência" went through every step, is
\* 'finalizado' and its report was sent
C29_Witness ==
    /\ steps = AutomaticSteps
    /\ ui_pc = "idle"
    /\ row.conferencia = SEM_CONFERENCIA
    /\ caminho_relatorio(row.numero_processo) \in relatorios
    /\ \E r \in processos : r.id = row.id /\ r.status = "finalizado"

====
